---- MODULE Spec2Model ----
(***************************************************************************)
(* The memo application as a state machine: the improved Fastify server    *)
(* (its data layer, id allocator, read cache and the four REST handlers)   *)
(* and the simple server (src/index.js).  Every request handler is cut at  *)
(* its awaits on file I/O, where Node may run another request's handler.   *)
(***************************************************************************)
EXTENDS Integers, Sequences, FiniteSets, TLC

(***************************************************************************)
(* Bounds of the model.                                                    *)
(***************************************************************************)
\* No create is given an id above MaxId.
MaxId == 2
\* Requests started in a run in which requests interleave, in such a run
\* with the cache enabled, in a run with every kind of input, and in a run
\* that follows the cache, in a run with the backup enabled, in a run of the
\* simple server on any data file, and in a run in which writes may fail.
MaxRequests == 2
MaxRequestsCache == 3
MaxRequestsFull == 2
MaxRequestsList == 3
MaxRequestsBackup == 2
MaxRequestsSimple == 2
MaxRequestsFail == 3
\* The clock (Date.now()) is not advanced past MaxTime.
MaxTime == 2
\* No create pushes onto a loaded Collection that already holds MaxMemos.
MaxMemos == 3
\* Request slots: requests that can be in flight at the same time.
Procs == {1, 2}

(***************************************************************************)
(* Program constants.                                                      *)
(***************************************************************************)
\* memoBodySchema: title.maxLength, content.maxLength
TitleMaxLength == 200
ContentMaxLength == 5000
\* config.cacheDuration, here as set by the environment (CACHE_DURATION=1)
cacheDuration == 1

(***************************************************************************)
(* Strings.  A string is a sequence of runs <<c, n>>: character c repeated *)
(* n >= 1 times, adjacent runs having different characters.  An ISO-8601   *)
(* timestamp is the one-run string <<"iso", t>> of the instant t.          *)
(***************************************************************************)
Run(c, n) == <<c, n>>

RECURSIVE StrLen(_)
StrLen(s) == IF s = <<>> THEN 0 ELSE s[1][2] + StrLen(Tail(s))

IsWhiteSpace(c) == c = " "

RECURSIVE TrimStart(_)
TrimStart(s) ==
  IF s = <<>> THEN s
  ELSE IF IsWhiteSpace(s[1][1]) THEN TrimStart(Tail(s)) ELSE s

RECURSIVE TrimEnd(_)
TrimEnd(s) ==
  IF s = <<>> THEN s
  ELSE IF IsWhiteSpace(s[Len(s)][1]) THEN TrimEnd(SubSeq(s, 1, Len(s) - 1)) ELSE s

\* String.prototype.trim
trim(s) == TrimEnd(TrimStart(s))

\* new Date(t).toISOString(), and the instant an ISO string denotes
toISOString(t) == <<Run("iso", t)>>
IsoTime(s) == s[1][2]
IsoLen == 24

(***************************************************************************)
(* JSON.  A document's text is either not JSON at all ("garbage", which    *)
(* includes the empty text of a truncated file) or a JSON value.           *)
(***************************************************************************)
Garbage == [t |-> "garbage"]
JNum(n) == [t |-> "num", n |-> n]
JStr(s) == [t |-> "str", s |-> s]
JObj(f) == [t |-> "obj", f |-> f]
JArr(a) == [t |-> "arr", a |-> a]
JNull == [t |-> "null"]

\* JSON.stringify of one memo object as the handlers build it
StringifyMemo(m) ==
  JObj([id |-> JNum(m.id), title |-> JStr(m.title), content |-> JStr(m.content),
        createdAt |-> JStr(m.createdAt), updatedAt |-> JStr(m.updatedAt)])

\* JSON.stringify(data, null, 2) of an array of memo objects
JSONstringify_Reversed(data) ==
  JArr([i \in 1..Len(data) |-> StringifyMemo(data[Len(data) + 1 - i])])
JSONstringify(data) == JArr([i \in 1..Len(data) |-> StringifyMemo(data[i])])

\* JSON.parse of a JSON value
RECURSIVE JSONparse(_)
JSONparse(j) ==
  CASE j.t = "num" -> j.n
    [] j.t = "str" -> j.s
    [] j.t = "obj" -> [k \in DOMAIN j.f |-> JSONparse(j.f[k])]
    [] j.t = "arr" -> [i \in 1..Len(j.a) |-> JSONparse(j.a[i])]
    [] OTHER -> JNull

\* Decimal digits of a positive id
RECURSIVE Digits(_)
Digits(n) == IF n < 10 THEN 1 ELSE 1 + Digits(n \div 10)

\* Length of the text JSON.stringify(data, null, 2) produces for one memo:
\* the punctuation, keys and indentation (96 characters) plus the values.
MemoTextLen(m) ==
  96 + Digits(m.id) + StrLen(m.title) + StrLen(m.content) + IsoLen + IsoLen

RECURSIVE SumTextLen(_)
SumTextLen(data) ==
  IF data = <<>> THEN 0 ELSE MemoTextLen(data[1]) + SumTextLen(Tail(data))

\* "[]" for the empty array; else "[\n", the memos joined by ",\n", "\n]"
TextLen(data) ==
  IF data = <<>> THEN 2 ELSE 2 + SumTextLen(data) + 2 * (Len(data) - 1) + 2

(***************************************************************************)
(* The data file.                                                          *)
(***************************************************************************)
NoFile == [exists |-> FALSE, text |-> Garbage, len |-> 0]
FileOf(text, len) == [exists |-> TRUE, text |-> text, len |-> len]
FileHolding_Empty(data) == FileOf(JSONstringify(<<>>), TextLen(<<>>))
FileHolding(data) == FileOf(JSONstringify(data), TextLen(data))

\* Nullable values (memosCache, cacheTimestamp)
Null == [isNull |-> TRUE]
Some(v) == [isNull |-> FALSE, v |-> v]

(***************************************************************************)
(* State.                                                                  *)
(***************************************************************************)
VARIABLES
  config,          \* the environment and the run's limits:
                   \* [server, cacheEnabled, oneAtATime, backupEnabled,
                   \*  failWrites, inputs, maxId, maxRequests, track]
  file,            \* DATA_FILE on disk
  backupFile,      \* DATA_FILE.backup on disk
  memosCache,      \* let memosCache
  cacheTimestamp,  \* let cacheTimestamp
  lastId,          \* let lastId
  now,             \* the clock read by Date.now() and new Date()
  req,             \* the request slots: each request's position and locals
  resp,            \* the response sent last, and the request it answers
  hist             \* history of the run, read only by the properties

vars == <<config, file, backupFile, memosCache, cacheTimestamp, lastId, now, req, resp, hist>>

(***************************************************************************)
(* Request inputs.                                                         *)
(***************************************************************************)
Body(title, content) ==
  [fields |-> {"title", "content"}, title |-> title, content |-> content]
NoBody == [fields |-> {}, title |-> <<>>, content |-> <<>>]

TitleA == <<Run("a", 1)>>
TitleB == <<Run("b", 1)>>
ContentX == <<Run("x", 1)>>
ContentY == <<Run("y", 1)>>
Blank == <<Run(" ", 1)>>
Padded == <<Run(" ", 1), Run("a", 1), Run(" ", 2)>>
Markup == <<Run("<", 1), Run("b", 1), Run(">", 1)>>

FewBodies == {Body(TitleA, ContentX)}

FullBodies ==
  FewBodies \cup
  { Body(Blank, ContentX), Body(TitleA, Blank), Body(Padded, ContentX),
    Body(<<>>, ContentX), Body(TitleA, <<>>), Body(Markup, ContentX),
    Body(<<Run("a", TitleMaxLength)>>, <<Run("x", ContentMaxLength)>>),
    Body(<<Run("a", TitleMaxLength + 1)>>, ContentX),
    Body(TitleA, <<Run("x", ContentMaxLength + 1)>>),
    [fields |-> {"content"}, title |-> <<>>, content |-> ContentX] }

Bodies == IF config.inputs = "full" THEN FullBodies ELSE FewBodies

\* The :id path parameter, a sequence of characters
CoreIdParams == {<<"1">>, <<"2">>, <<"3">>}
FullIdParams ==
  CoreIdParams \cup
  { <<"0", "2">>, <<"9", "9", "9", "9", "9", "9">>, <<"-", "1">>, <<"x">>,
    <<"1", "x">>, <<"1", ".", "5">> }
IdParams == IF config.inputs = "full" THEN FullIdParams ELSE CoreIdParams

\* PUT requests: every body with the id 1, and every id with one valid body
PutInputs ==
  { x \in IdParams \X Bodies : x[1] = <<"1">> \/ x[2] = Body(TitleA, ContentX) }

(***************************************************************************)
(* Validation schemas (checked by the framework before a handler runs).    *)
(***************************************************************************)
\* pattern '^[^<>]*$'
NoAngleBrackets(s) == \A i \in 1..Len(s) : s[i][1] \notin {"<", ">"}

memoBodySchema_NoPattern(b) ==
  /\ {"title", "content"} \subseteq b.fields
  /\ StrLen(b.title) >= 1
  /\ StrLen(b.title) <= TitleMaxLength
  /\ StrLen(b.content) >= 1
  /\ StrLen(b.content) <= ContentMaxLength
memoBodySchema(b) ==
  /\ {"title", "content"} \subseteq b.fields
  /\ StrLen(b.title) >= 1
  /\ StrLen(b.title) <= TitleMaxLength
  /\ NoAngleBrackets(b.title)
  /\ StrLen(b.content) >= 1
  /\ StrLen(b.content) <= ContentMaxLength

DigitValue ==
  [c \in {"0", "1", "2", "3", "4", "5", "6", "7", "8", "9"} |->
     CASE c = "0" -> 0 [] c = "1" -> 1 [] c = "2" -> 2 [] c = "3" -> 3
       [] c = "4" -> 4 [] c = "5" -> 5 [] c = "6" -> 6 [] c = "7" -> 7
       [] c = "8" -> 8 [] OTHER -> 9]

\* pattern '^[0-9]+$'
idParamSchema(s) == Len(s) >= 1 /\ \A i \in 1..Len(s) : s[i] \in DOMAIN DigitValue

\* parseInt of a string: the value of its leading digits (NaN, here -1, if none)
RECURSIVE ParseDigits(_, _)
ParseDigits(s, acc) ==
  IF s = <<>> \/ s[1] \notin DOMAIN DigitValue THEN acc
  ELSE ParseDigits(Tail(s), 10 * acc + DigitValue[s[1]])

parseInt(s) ==
  IF s = <<>> \/ s[1] \notin DOMAIN DigitValue THEN -1 ELSE ParseDigits(s, 0)

\* setErrorHandler: the status a thrown error is answered with
setErrorHandler(error) == IF error = "validation" THEN 400 ELSE 500

(***************************************************************************)
(* Data layer.                                                             *)
(***************************************************************************)
\* loadData, given what fs.readFile found: the array, or the error thrown
loadData(f) ==
  IF ~f.exists THEN [ok |-> TRUE, memos |-> <<>>, error |-> "none"]
  ELSE IF f.text.t = "garbage"
    THEN [ok |-> FALSE, memos |-> <<>>, error |-> "corrupt"]
  ELSE IF f.text.t # "arr"
    THEN [ok |-> FALSE, memos |-> <<>>, error |-> "format"]
  ELSE [ok |-> TRUE, memos |-> JSONparse(f.text), error |-> "none"]

\* JavaScript truthiness of memosCache (an array or null) and of
\* cacheTimestamp (a number or null)
TruthyCache(c) == ~c.isNull
TruthyTimestamp(t) == ~t.isNull /\ t.v # 0

\* loadDataWithCache's test for answering from the cache
CacheHit_Inclusive(t) ==
  /\ TruthyCache(memosCache)
  /\ TruthyTimestamp(cacheTimestamp)
  /\ t - cacheTimestamp.v <= cacheDuration
CacheHit(t) ==
  /\ TruthyCache(memosCache)
  /\ TruthyTimestamp(cacheTimestamp)
  /\ t - cacheTimestamp.v < cacheDuration

MaxOf(S) ==
  IF S = {} THEN 0
  ELSE LET x == CHOOSE y \in S : \A z \in S : z <= y IN x

Ids(memos) == {memos[i].id : i \in 1..Len(memos)}

\* initializeLastId: the mark after start(), given the loaded array
initializeLastId_Zero(memos) == 0
initializeLastId(memos) == IF Len(memos) > 0 THEN MaxOf(Ids(memos)) ELSE 0

\* getNextId (return ++lastId): the value returned, and lastId after the call
getNextId == lastId + 1
MarkAfterNext_NotStored == lastId
MarkAfterNext == lastId + 1

\* memos.findIndex(m => m.id === id): the first index, 0 for -1
findIndex_OrLast(memos, id) ==
  IF \E i \in 1..Len(memos) : memos[i].id = id
  THEN CHOOSE i \in 1..Len(memos) :
         memos[i].id = id /\ \A j \in 1..(i - 1) : memos[j].id # id
  ELSE Len(memos)
findIndex(memos, id) ==
  IF \E i \in 1..Len(memos) : memos[i].id = id
  THEN CHOOSE i \in 1..Len(memos) :
         memos[i].id = id /\ \A j \in 1..(i - 1) : memos[j].id # id
  ELSE 0

\* memos.splice(index, 1): the array left
splice_Tail(memos, index) == SubSeq(memos, 1, index - 1)
splice(memos, index) ==
  SubSeq(memos, 1, index - 1) \o SubSeq(memos, index + 1, Len(memos))

(***************************************************************************)
(* Request slots.                                                          *)
(*   pc: idle -> readFile -> loaded -> writeOpen -> writeData -> written   *)
(*       -> idle; a request answered before its handler awaits never       *)
(*       occupies a slot.  With the backup enabled, copyFile comes between *)
(*       loaded and writeOpen.                                             *)
(***************************************************************************)
Idle ==
  [pc |-> "idle", op |-> "none", params |-> <<>>, body |-> NoBody, now |-> 0,
   data |-> NoFile, memos |-> <<>>, index |-> 0, memo |-> <<>>, settled |-> FALSE,
   backup |-> "none"]

WriteOps == {"create", "update", "delete"}

WriteInFlight == \E q \in Procs : req[q].op \in WriteOps

\* A request entering its handler
Enter(op, params, body) ==
  [Idle EXCEPT !.pc = "readFile", !.op = op, !.params = params, !.body = body]

\* reply.code(status).send(reply) to request r
Response(r, status, reply) ==
  [op |-> r.op, params |-> r.params, body |-> r.body, status |-> status,
   reply |-> reply, settled |-> r.settled]

NoResponse == Response(Idle, 0, <<>>)

\* The lowest free slot takes the next request; one at a time, no request
\* starts while another is in flight
Free(p) ==
  /\ req[p].pc = "idle"
  /\ \A q \in Procs : q < p => req[q].pc # "idle"
  /\ config.oneAtATime => \A q \in Procs : req[q].pc = "idle"
  /\ "started" \in config.track => hist.started < config.maxRequests

\* The improved server (src/unnamed/part_000) is the program running, and
\* slot p takes its next request
CanStart(p) == config.server = "improved" /\ Free(p)

\* Slot p's handler, of the improved server, stands at pc in a request op
At(p, pc, op) ==
  config.server = "improved" /\ req[p].pc = pc /\ req[p].op = op

\* A write request enters its handler in slot p: no list is settled any more
EnterWrite(p, r) ==
  /\ req' = [q \in Procs |-> IF q = p THEN r ELSE [req[q] EXCEPT !.settled = FALSE]]
  /\ resp' = [resp EXCEPT !.settled = FALSE]

(***************************************************************************)
(* History: what has happened so far, for the properties to read.          *)
(* Each part is kept only when config.track names it.                      *)
(*   started      the number of requests started                            *)
(*   wrote        a create, update or delete has been answered with success *)
(*   hit          a list has been answered from the cache                   *)
(*   before       the data file as the request that read it last found it   *)
(*   delMax       a delete removed the memo with the highest id it loaded   *)
(*   allocated    the ids getNextId has returned                            *)
(*   deleted      ids deleted with success and not returned by a create     *)
(*                since                                                     *)
(*   delCached    those of them the cache held when the delete cleared it   *)
(*   everUpdated  ids of the memos updated with success since their create  *)
(*   scenario     how far the requests answered so far spell the sequence   *)
(*                create, create, delete(2), create, list (all successful), *)
(*                from an empty Collection; -1 once they do not             *)
(***************************************************************************)
ScenarioNext(s, op, params, status) ==
  IF "scenario" \notin config.track THEN -1
  ELSE CASE s = 0 /\ op = "create" /\ status = 201 -> 1
         [] s = 1 /\ op = "create" /\ status = 201 -> 2
         [] s = 2 /\ op = "delete" /\ status = 200 /\ parseInt(params) = 2 -> 3
         [] s = 3 /\ op = "create" /\ status = 201 -> 4
         [] s = 4 /\ op = "list" /\ status = 200 -> 5
         [] OTHER -> -1

Track(part, new, old) == IF part \in config.track THEN new ELSE old

\* hist once one more request has started
Started(h) == [h EXCEPT !.started = Track("started", @ + 1, @)]

\* hist after request r is answered with status
Answered(h, r, status) ==
  [h EXCEPT !.scenario = ScenarioNext(h.scenario, r.op, r.params, status),
            !.wrote = Track("wrote", @ \/ (r.op \in WriteOps /\ status \in {200, 201}), @)]

(***************************************************************************)
(* Init: the state once start() has run initializeLastId and listens.      *)
(***************************************************************************)
StoredMemo(id, title, content) ==
  [id |-> id, title |-> title, content |-> content,
   createdAt |-> toISOString(0), updatedAt |-> toISOString(0)]

InitCollections ==
  { <<>>,
    <<StoredMemo(1, TitleA, ContentX)>>,
    <<StoredMemo(1, TitleA, ContentX), StoredMemo(2, TitleB, ContentY)>> }

InitFiles == {NoFile} \cup {FileHolding(c) : c \in InitCollections}

InitWith(cfg) ==
  /\ config = cfg
  /\ file \in InitFiles
  /\ backupFile = NoFile
  /\ memosCache = Null
  /\ cacheTimestamp = Null
  /\ lastId = initializeLastId(loadData(file).memos)
  /\ now = 1
  /\ req = [p \in Procs |-> Idle]
  /\ resp = NoResponse
  /\ hist = [started |-> 0, wrote |-> FALSE, hit |-> FALSE, before |-> NoFile,
             delMax |-> FALSE,
             allocated |-> {},
             deleted |-> {}, delCached |-> {}, everUpdated |-> {},
             scenario |-> IF "scenario" \in cfg.track /\ loadData(file).memos = <<>>
                          THEN 0 ELSE -1]

\* Requests interleave at their awaits
Init ==
  \E ce \in BOOLEAN :
    InitWith([server |-> "improved", cacheEnabled |-> ce, oneAtATime |-> FALSE,
              backupEnabled |-> FALSE, failWrites |-> FALSE,
              inputs |-> "few", maxId |-> MaxId, maxRequests |-> MaxRequests,
              track |-> {"started", "ids"}])

(***************************************************************************)
(* The clock.                                                              *)
(***************************************************************************)
Tick ==
  /\ now < MaxTime
  /\ now' = now + 1
  /\ UNCHANGED <<config, backupFile, file, memosCache, cacheTimestamp, lastId, req, resp, hist>>

(***************************************************************************)
(* GET /api/memos, with loadDataWithCache up to its await.                 *)
(***************************************************************************)
GetMemos(p) ==
  /\ CanStart(p)
  /\ LET r == [Enter("list", <<>>, NoBody) EXCEPT
                 !.now = now, !.settled = ~WriteInFlight]
     IN IF config.cacheEnabled /\ CacheHit(now)
        THEN /\ resp' = Response(r, 200, memosCache.v)
             /\ hist' = [Answered(Started(hist), r, 200) EXCEPT
                           !.hit = Track("hit", TRUE, @)]
             /\ req' = req
        ELSE /\ req' = [req EXCEPT ![p] = r]
             /\ hist' = Started(hist)
             /\ resp' = resp
  /\ UNCHANGED <<config, backupFile, file, memosCache, cacheTimestamp, lastId, now>>

\* loadDataWithCache and the handler after loadData has settled
GetMemosLoaded(p) ==
  /\ At(p, "loaded", "list")
  /\ LET r == req[p]
         l == loadData(r.data)
     IN IF ~l.ok
        THEN /\ resp' = Response(r, setErrorHandler(l.error), <<>>)
             /\ hist' = Answered(hist, r, setErrorHandler(l.error))
             /\ UNCHANGED <<memosCache, cacheTimestamp>>
        ELSE /\ resp' = Response(r, 200, l.memos)
             /\ hist' = Answered(hist, r, 200)
             /\ IF config.cacheEnabled
                THEN /\ memosCache' = Some(l.memos)
                     /\ cacheTimestamp' = Some(r.now)
                ELSE UNCHANGED <<memosCache, cacheTimestamp>>
  /\ req' = [req EXCEPT ![p] = Idle]
  /\ UNCHANGED <<config, backupFile, file, lastId, now>>

(***************************************************************************)
(* fs.readFile inside loadData: the moment the file's content is read.     *)
(***************************************************************************)
ReadFile(p) ==
  /\ req[p].pc = "readFile"
  /\ req' = [req EXCEPT ![p] = [@ EXCEPT !.pc = "loaded", !.data = file]]
  /\ hist' = [hist EXCEPT !.before = Track("before", file, @)]
  /\ UNCHANGED <<config, backupFile, file, memosCache, cacheTimestamp, lastId, now, resp>>

(***************************************************************************)
(* saveData: fs.writeFile opens the file for writing, which empties it,    *)
(* then writes the text from the start of the file; clearCache follows     *)
(* once the write has settled (in the handlers' ...Saved actions).         *)
(***************************************************************************)
\* Where saveData begins: at the backup copy if BACKUP_ENABLED, else at
\* fs.writeFile
SavePc == IF config.backupEnabled THEN "copyFile" ELSE "writeOpen"

\* Where saveData goes on after fs.copyFile has settled, copied or not (the
\* inner catch logs a failure)
AfterCopy_Throws(copied) == IF copied THEN "writeOpen" ELSE "writeFailed"
AfterCopy(copied) == "writeOpen"

\* fs.copyFile(DATA_FILE, backupPath): it fails if there is no data file, and
\* may fail for any other reason
CopyFile(p) ==
  /\ req[p].pc = "copyFile"
  /\ \E copied \in BOOLEAN :
       /\ copied => file.exists
       /\ backupFile' = IF copied THEN file ELSE backupFile
       /\ req' = [req EXCEPT ![p] =
                    [@ EXCEPT !.pc = AfterCopy(copied),
                              !.backup = IF copied THEN "copied" ELSE "failed"]]
  /\ UNCHANGED <<config, file, memosCache, cacheTimestamp, lastId, now, resp, hist>>

clearCache_TimestampOnly == memosCache' = memosCache /\ cacheTimestamp' = Null
clearCache_Kept == UNCHANGED <<memosCache, cacheTimestamp>>
clearCache == memosCache' = Null /\ cacheTimestamp' = Null

WriteOpen(p) ==
  /\ req[p].pc = "writeOpen"
  /\ file' = FileOf(Garbage, 0)
  /\ req' = [req EXCEPT ![p] = [@ EXCEPT !.pc = "writeData"]]
  /\ UNCHANGED <<config, backupFile, memosCache, cacheTimestamp, lastId, now, resp, hist>>

\* fs.writeFile fails to open the file (no permission, say): the file is as
\* it was
WriteOpenFails(p) ==
  /\ config.failWrites
  /\ req[p].pc = "writeOpen"
  /\ req' = [req EXCEPT ![p] = [@ EXCEPT !.pc = "writeFailed"]]
  /\ UNCHANGED <<config, backupFile, file, memosCache, cacheTimestamp, lastId, now, resp, hist>>

\* fs.writeFile fails to write the text (the disk is full, say) after it
\* has opened and emptied the file: nothing of the text is written, or a
\* first part of it only
WriteDataFails(p) ==
  /\ config.failWrites
  /\ req[p].pc = "writeData"
  /\ \E part \in {0, 1} :
       file' = IF file.len < part THEN FileOf(Garbage, part) ELSE file
  /\ req' = [req EXCEPT ![p] = [@ EXCEPT !.pc = "writeFailed"]]
  /\ UNCHANGED <<config, backupFile, memosCache, cacheTimestamp, lastId, now, resp, hist>>

\* saveData's catch throws, the handler passes the error on and
\* setErrorHandler answers it
SaveFailed(p) ==
  /\ config.server = "improved"
  /\ req[p].pc = "writeFailed"
  /\ resp' = Response(req[p], setErrorHandler("save"), <<>>)
  /\ hist' = Answered(hist, req[p], setErrorHandler("save"))
  /\ req' = [req EXCEPT ![p] = Idle]
  /\ UNCHANGED <<config, backupFile, file, memosCache, cacheTimestamp, lastId, now>>

\* The text lands at offset 0: what another writer wrote since this one
\* opened the file survives beyond this text's length, and is then not JSON.
WriteData(p) ==
  /\ req[p].pc = "writeData"
  /\ file' = IF file.len <= TextLen(req[p].memos)
             THEN FileHolding(req[p].memos)
             ELSE FileOf(Garbage, file.len)
  /\ req' = [req EXCEPT ![p] = [@ EXCEPT !.pc = "written"]]
  /\ UNCHANGED <<config, backupFile, memosCache, cacheTimestamp, lastId, now, resp, hist>>

(***************************************************************************)
(* POST /api/memos                                                         *)
(***************************************************************************)
\* Creates in flight that have not called getNextId yet
PendingCreates ==
  Cardinality({q \in Procs : req[q].op = "create" /\ req[q].pc \in {"readFile", "loaded"}})

PostMemo(p, b) ==
  /\ CanStart(p)
  /\ lastId + PendingCreates < config.maxId
  /\ IF memoBodySchema(b)
     THEN /\ EnterWrite(p, Enter("create", <<>>, b))
          /\ hist' = Started(hist)
     ELSE /\ resp' = Response(Enter("create", <<>>, b), setErrorHandler("validation"), <<>>)
          /\ hist' = Answered(Started(hist), Enter("create", <<>>, b), setErrorHandler("validation"))
          /\ req' = req
  /\ UNCHANGED <<config, backupFile, file, memosCache, cacheTimestamp, lastId, now>>

\* The memo POST builds
NewMemo(id, title, content, t) ==
  [id |-> id, title |-> trim(title), content |-> trim(content),
   createdAt |-> toISOString(t), updatedAt |-> toISOString(t)]

PostLoaded(p) ==
  /\ At(p, "loaded", "create")
  /\ LET r == req[p]
         l == loadData(r.data)
         newMemo == NewMemo(getNextId, r.body.title, r.body.content, now)
     IN IF ~l.ok
        THEN /\ resp' = Response(r, setErrorHandler(l.error), <<>>)
             /\ hist' = Answered(hist, r, setErrorHandler(l.error))
             /\ req' = [req EXCEPT ![p] = Idle]
             /\ lastId' = lastId
        ELSE /\ Len(l.memos) < MaxMemos
             /\ lastId' = MarkAfterNext
             /\ req' = [req EXCEPT ![p] =
                          [r EXCEPT !.pc = SavePc, !.data = NoFile,
                                    !.memos = Append(l.memos, newMemo),
                                    !.memo = <<newMemo>>]]
             /\ hist' = [hist EXCEPT
                           !.allocated = Track("ids", @ \cup {getNextId}, @)]
             /\ resp' = resp
  /\ UNCHANGED <<config, backupFile, file, memosCache, cacheTimestamp, now>>

PostSaved(p) ==
  /\ At(p, "written", "create")
  /\ clearCache
  /\ resp' = Response(req[p], 201, req[p].memo)
  /\ req' = [req EXCEPT ![p] = Idle]
  /\ hist' = [Answered(hist, req[p], 201) EXCEPT
                !.deleted = @ \ {req[p].memo[1].id},
                !.delCached = @ \ {req[p].memo[1].id},
                !.everUpdated = @ \ {req[p].memo[1].id}]
  /\ UNCHANGED <<config, backupFile, file, lastId, now>>

(***************************************************************************)
(* PUT /api/memos/:id                                                      *)
(***************************************************************************)
PutMemo(p, i, b) ==
  /\ CanStart(p)
  /\ IF idParamSchema(i) /\ memoBodySchema(b)
     THEN /\ EnterWrite(p, Enter("update", i, b))
          /\ hist' = Started(hist)
     ELSE /\ resp' = Response(Enter("update", i, b), setErrorHandler("validation"), <<>>)
          /\ hist' = Answered(Started(hist), Enter("update", i, b), setErrorHandler("validation"))
          /\ req' = req
  /\ UNCHANGED <<config, backupFile, file, memosCache, cacheTimestamp, lastId, now>>

\* memos[memoIndex] after the handler's three assignments
Updated_Recreated(m, title, content, t) ==
  [m EXCEPT !.title = trim(title), !.content = trim(content),
            !.createdAt = toISOString(t), !.updatedAt = toISOString(t)]
Updated(m, title, content, t) ==
  [m EXCEPT !.title = trim(title), !.content = trim(content),
            !.updatedAt = toISOString(t)]

PutLoaded(p) ==
  /\ At(p, "loaded", "update")
  /\ LET r == req[p]
         l == loadData(r.data)
         memoIndex == findIndex(l.memos, parseInt(r.params))
     IN IF ~l.ok
        THEN /\ resp' = Response(r, setErrorHandler(l.error), <<>>)
             /\ hist' = Answered(hist, r, setErrorHandler(l.error))
             /\ req' = [req EXCEPT ![p] = Idle]
        ELSE IF memoIndex = 0
        THEN /\ resp' = Response(r, 404, <<>>)
             /\ hist' = Answered(hist, r, 404)
             /\ req' = [req EXCEPT ![p] = Idle]
        ELSE LET m == Updated(l.memos[memoIndex], r.body.title, r.body.content, now)
             IN /\ req' = [req EXCEPT ![p] =
                             [r EXCEPT !.pc = SavePc, !.data = NoFile,
                                       !.memos = [l.memos EXCEPT ![memoIndex] = m],
                                       !.index = memoIndex, !.memo = <<m>>]]
                /\ UNCHANGED <<resp, hist>>
  /\ UNCHANGED <<config, backupFile, file, memosCache, cacheTimestamp, lastId, now>>

PutSaved(p) ==
  /\ At(p, "written", "update")
  /\ clearCache
  /\ resp' = Response(req[p], 200, <<req[p].memos[req[p].index]>>)
  /\ req' = [req EXCEPT ![p] = Idle]
  /\ hist' = [Answered(hist, req[p], 200) EXCEPT
                !.everUpdated = Track("updated", @ \cup {req[p].memo[1].id}, @)]
  /\ UNCHANGED <<config, backupFile, file, lastId, now>>

(***************************************************************************)
(* DELETE /api/memos/:id                                                   *)
(***************************************************************************)
DeleteMemo(p, i) ==
  /\ CanStart(p)
  /\ IF idParamSchema(i)
     THEN /\ EnterWrite(p, Enter("delete", i, NoBody))
          /\ hist' = Started(hist)
     ELSE /\ resp' = Response(Enter("delete", i, NoBody), setErrorHandler("validation"), <<>>)
          /\ hist' = Answered(Started(hist), Enter("delete", i, NoBody), setErrorHandler("validation"))
          /\ req' = req
  /\ UNCHANGED <<config, backupFile, file, memosCache, cacheTimestamp, lastId, now>>

DeleteLoaded(p) ==
  /\ At(p, "loaded", "delete")
  /\ LET r == req[p]
         l == loadData(r.data)
         memoIndex == findIndex(l.memos, parseInt(r.params))
     IN IF ~l.ok
        THEN /\ resp' = Response(r, setErrorHandler(l.error), <<>>)
             /\ hist' = Answered(hist, r, setErrorHandler(l.error))
             /\ req' = [req EXCEPT ![p] = Idle]
        ELSE IF memoIndex = 0
        THEN /\ resp' = Response(r, 404, <<>>)
             /\ hist' = Answered(hist, r, 404)
             /\ req' = [req EXCEPT ![p] = Idle]
        ELSE /\ req' = [req EXCEPT ![p] =
                          [r EXCEPT !.pc = SavePc, !.data = NoFile,
                                    !.memos = splice(l.memos, memoIndex),
                                    !.index = memoIndex,
                                    !.memo = <<l.memos[memoIndex]>>]]
             /\ UNCHANGED <<resp, hist>>
  /\ UNCHANGED <<config, backupFile, file, memosCache, cacheTimestamp, lastId, now>>

\* The high-water mark after a delete of deletedMemo has been saved
MarkAfterDelete_Kept(deletedMemo) == lastId
MarkAfterDelete(deletedMemo) ==
  IF deletedMemo.id = lastId THEN lastId - 1 ELSE lastId

DeleteSaved(p) ==
  /\ At(p, "written", "delete")
  /\ clearCache
  /\ lastId' = MarkAfterDelete(req[p].memo[1])
  /\ resp' = Response(req[p], 200, req[p].memo)
  /\ req' = [req EXCEPT ![p] = Idle]
  /\ hist' = [Answered(hist, req[p], 200) EXCEPT
                !.delMax = Track("ids", @ \/ req[p].memo[1].id >= MaxOf(Ids(req[p].memos)), @),
                !.deleted = Track("deleted", @ \cup {req[p].memo[1].id}, @),
                !.delCached =
                  Track("deleted",
                        IF TruthyCache(memosCache)
                           /\ req[p].memo[1].id \in Ids(memosCache.v)
                        THEN @ \cup {req[p].memo[1].id} ELSE @, @),
                !.everUpdated = @ \ {req[p].memo[1].id}]
  /\ UNCHANGED <<config, backupFile, file, now>>

(***************************************************************************)
(* The simple server (src/index.js): no schemas, no cache, no high-water   *)
(* mark.  Each handler validates by hand and answers its own errors.       *)
(***************************************************************************)
\* The simple server is the program running, and slot p takes its next request
SimpleCanStart(p) == config.server = "simple" /\ Free(p)

SimpleAt(p, pc, op) ==
  config.server = "simple" /\ req[p].pc = pc /\ req[p].op = op

\* loadData: JSON.parse of the text, or [] on any error
SimpleLoadData(f) ==
  IF ~f.exists \/ f.text.t = "garbage"
  THEN [isArray |-> TRUE, memos |-> <<>>]
  ELSE [isArray |-> f.text.t = "arr", memos |-> JSONparse(f.text)]

\* !title || title.trim() === '', and the same for content: the request passes
SimpleBodyOk(b) ==
  /\ "title" \in b.fields /\ trim(b.title) # <<>>
  /\ "content" \in b.fields /\ trim(b.content) # <<>>

\* memos.length > 0 ? Math.max(...memos.map(m => m.id)) + 1 : 1
SimpleNewId(memos) == IF Len(memos) > 0 THEN MaxOf(Ids(memos)) + 1 ELSE 1

\* A handler's catch block
SimpleCatch(p) ==
  /\ resp' = Response(req[p], 500, <<>>)
  /\ hist' = Answered(hist, req[p], 500)
  /\ req' = [req EXCEPT ![p] = Idle]

\* GET /api/memos
SimpleGetMemos(p) ==
  /\ SimpleCanStart(p)
  /\ req' = [req EXCEPT ![p] = [Enter("list", <<>>, NoBody) EXCEPT
                                  !.now = now, !.settled = ~WriteInFlight]]
  /\ hist' = Started(hist)
  /\ UNCHANGED <<config, backupFile, file, memosCache, cacheTimestamp, lastId, now, resp>>

SimpleGetMemosLoaded(p) ==
  /\ SimpleAt(p, "loaded", "list")
  /\ resp' = Response(req[p], 200, SimpleLoadData(req[p].data).memos)
  /\ hist' = Answered(hist, req[p], 200)
  /\ req' = [req EXCEPT ![p] = Idle]
  /\ UNCHANGED <<config, backupFile, file, memosCache, cacheTimestamp, lastId, now>>

\* POST /api/memos
SimplePostMemo(p, b) ==
  /\ SimpleCanStart(p)
  /\ IF SimpleBodyOk(b)
     THEN /\ EnterWrite(p, Enter("create", <<>>, b))
          /\ hist' = Started(hist)
     ELSE /\ resp' = Response(Enter("create", <<>>, b), 400, <<>>)
          /\ hist' = Answered(Started(hist), Enter("create", <<>>, b), 400)
          /\ req' = req
  /\ UNCHANGED <<config, backupFile, file, memosCache, cacheTimestamp, lastId, now>>

SimplePostLoaded(p) ==
  /\ SimpleAt(p, "loaded", "create")
  /\ LET r == req[p]
         l == SimpleLoadData(r.data)
         newMemo == NewMemo(SimpleNewId(l.memos), r.body.title, r.body.content, now)
     IN IF ~l.isArray
        THEN SimpleCatch(p)
        ELSE /\ Len(l.memos) < MaxMemos
             /\ SimpleNewId(l.memos) <= config.maxId
             /\ req' = [req EXCEPT ![p] =
                          [r EXCEPT !.pc = "writeOpen", !.data = NoFile,
                                    !.memos = Append(l.memos, newMemo),
                                    !.memo = <<newMemo>>]]
             /\ UNCHANGED <<resp, hist>>
  /\ UNCHANGED <<config, backupFile, file, memosCache, cacheTimestamp, lastId, now>>

SimplePostSaved(p) ==
  /\ SimpleAt(p, "written", "create")
  /\ resp' = Response(req[p], 201, req[p].memo)
  /\ req' = [req EXCEPT ![p] = Idle]
  /\ hist' = [Answered(hist, req[p], 201) EXCEPT
                !.deleted = @ \ {req[p].memo[1].id},
                !.delCached = @ \ {req[p].memo[1].id},
                !.everUpdated = @ \ {req[p].memo[1].id}]
  /\ UNCHANGED <<config, backupFile, file, memosCache, cacheTimestamp, lastId, now>>

\* PUT /api/memos/:id
SimplePutMemo(p, i, b) ==
  /\ SimpleCanStart(p)
  /\ IF SimpleBodyOk(b)
     THEN /\ EnterWrite(p, Enter("update", i, b))
          /\ hist' = Started(hist)
     ELSE /\ resp' = Response(Enter("update", i, b), 400, <<>>)
          /\ hist' = Answered(Started(hist), Enter("update", i, b), 400)
          /\ req' = req
  /\ UNCHANGED <<config, backupFile, file, memosCache, cacheTimestamp, lastId, now>>

SimplePutLoaded(p) ==
  /\ SimpleAt(p, "loaded", "update")
  /\ LET r == req[p]
         l == SimpleLoadData(r.data)
         memoIndex == findIndex(l.memos, parseInt(r.params))
     IN IF ~l.isArray
        THEN SimpleCatch(p)
        ELSE IF memoIndex = 0
        THEN /\ resp' = Response(r, 404, <<>>)
             /\ hist' = Answered(hist, r, 404)
             /\ req' = [req EXCEPT ![p] = Idle]
        ELSE LET m == Updated(l.memos[memoIndex], r.body.title, r.body.content, now)
             IN /\ req' = [req EXCEPT ![p] =
                             [r EXCEPT !.pc = "writeOpen", !.data = NoFile,
                                       !.memos = [l.memos EXCEPT ![memoIndex] = m],
                                       !.index = memoIndex, !.memo = <<m>>]]
                /\ UNCHANGED <<resp, hist>>
  /\ UNCHANGED <<config, backupFile, file, memosCache, cacheTimestamp, lastId, now>>

SimplePutSaved(p) ==
  /\ SimpleAt(p, "written", "update")
  /\ resp' = Response(req[p], 200, <<req[p].memos[req[p].index]>>)
  /\ req' = [req EXCEPT ![p] = Idle]
  /\ hist' = [Answered(hist, req[p], 200) EXCEPT
                !.everUpdated = Track("updated", @ \cup {req[p].memo[1].id}, @)]
  /\ UNCHANGED <<config, backupFile, file, memosCache, cacheTimestamp, lastId, now>>

\* DELETE /api/memos/:id
SimpleDeleteMemo(p, i) ==
  /\ SimpleCanStart(p)
  /\ EnterWrite(p, Enter("delete", i, NoBody))
  /\ hist' = Started(hist)
  /\ UNCHANGED <<config, backupFile, file, memosCache, cacheTimestamp, lastId, now>>

SimpleDeleteLoaded(p) ==
  /\ SimpleAt(p, "loaded", "delete")
  /\ LET r == req[p]
         l == SimpleLoadData(r.data)
         memoIndex == findIndex(l.memos, parseInt(r.params))
     IN IF ~l.isArray
        THEN SimpleCatch(p)
        ELSE IF memoIndex = 0
        THEN /\ resp' = Response(r, 404, <<>>)
             /\ hist' = Answered(hist, r, 404)
             /\ req' = [req EXCEPT ![p] = Idle]
        ELSE /\ req' = [req EXCEPT ![p] =
                          [r EXCEPT !.pc = "writeOpen", !.data = NoFile,
                                    !.memos = splice(l.memos, memoIndex),
                                    !.index = memoIndex,
                                    !.memo = <<l.memos[memoIndex]>>]]
             /\ UNCHANGED <<resp, hist>>
  /\ UNCHANGED <<config, backupFile, file, memosCache, cacheTimestamp, lastId, now>>

SimpleDeleteSaved(p) ==
  /\ SimpleAt(p, "written", "delete")
  /\ resp' = Response(req[p], 200, req[p].memo)
  /\ req' = [req EXCEPT ![p] = Idle]
  /\ hist' = [Answered(hist, req[p], 200) EXCEPT
                !.deleted = Track("deleted", @ \cup {req[p].memo[1].id}, @),
                !.everUpdated = @ \ {req[p].memo[1].id}]
  /\ UNCHANGED <<config, backupFile, file, memosCache, cacheTimestamp, lastId, now>>

(***************************************************************************)
(* The server.                                                             *)
(***************************************************************************)
Next ==
  \/ Tick
  \/ \E p \in Procs : GetMemos(p)
  \/ \E p \in Procs, b \in Bodies : PostMemo(p, b)
  \/ \E p \in Procs, x \in PutInputs : PutMemo(p, x[1], x[2])
  \/ \E p \in Procs, i \in IdParams : DeleteMemo(p, i)
  \/ \E p \in Procs : ReadFile(p)
  \/ \E p \in Procs : GetMemosLoaded(p)
  \/ \E p \in Procs : PostLoaded(p)
  \/ \E p \in Procs : PutLoaded(p)
  \/ \E p \in Procs : DeleteLoaded(p)
  \/ \E p \in Procs : WriteOpen(p)
  \/ \E p \in Procs : WriteData(p)
  \/ \E p \in Procs : PostSaved(p)
  \/ \E p \in Procs : PutSaved(p)
  \/ \E p \in Procs : DeleteSaved(p)

Spec == Init /\ [][Next]_vars

\* Requests interleave at their awaits, the cache enabled
InitCache ==
  InitWith([server |-> "improved", cacheEnabled |-> TRUE, oneAtATime |-> FALSE,
              backupEnabled |-> FALSE, failWrites |-> FALSE,
            inputs |-> "few", maxId |-> MaxId, maxRequests |-> MaxRequestsCache,
            track |-> {"started", "wrote"}])

SpecCache == InitCache /\ [][Next]_vars

\* Requests handled one at a time
InitSeq ==
  \E ce \in BOOLEAN :
    InitWith([server |-> "improved", cacheEnabled |-> ce, oneAtATime |-> TRUE,
              backupEnabled |-> FALSE, failWrites |-> FALSE,
              inputs |-> "few", maxId |-> MaxId, maxRequests |-> 0,
              track |-> {"deleted", "scenario"}])

SpecSeq == InitSeq /\ [][Next]_vars

\* Requests handled one at a time, with every kind of request body and id
\* parameter
InitFull ==
  \E ce \in BOOLEAN :
    InitWith([server |-> "improved", cacheEnabled |-> ce, oneAtATime |-> TRUE,
              backupEnabled |-> FALSE, failWrites |-> FALSE,
              inputs |-> "full", maxId |-> MaxId, maxRequests |-> MaxRequestsFull,
              track |-> {"started"}])

SpecFull == InitFull /\ [][Next]_vars

\* Requests handled one at a time, the cache followed
InitList ==
  \E ce \in BOOLEAN :
    InitWith([server |-> "improved", cacheEnabled |-> ce, oneAtATime |-> TRUE,
              backupEnabled |-> FALSE, failWrites |-> FALSE,
              inputs |-> "few", maxId |-> MaxId, maxRequests |-> MaxRequestsList,
              track |-> {"started", "wrote", "hit"}])

SpecList == InitList /\ [][Next]_vars

\* Requests handled one at a time, every save preceded by the backup copy
InitBackup ==
  \E ce \in BOOLEAN :
    InitWith([server |-> "improved", cacheEnabled |-> ce, oneAtATime |-> TRUE,
              backupEnabled |-> TRUE, failWrites |-> FALSE,
              inputs |-> "few", maxId |-> MaxId,
              maxRequests |-> MaxRequestsBackup, track |-> {"started"}])

NextBackup == Next \/ \E p \in Procs : CopyFile(p)

SpecBackup == InitBackup /\ [][NextBackup]_vars

\* Requests handled one at a time, any fs.writeFile may fail
InitFail ==
  \E ce \in BOOLEAN :
    InitWith([server |-> "improved", cacheEnabled |-> ce, oneAtATime |-> TRUE,
              backupEnabled |-> FALSE, failWrites |-> TRUE,
              inputs |-> "few", maxId |-> MaxId, maxRequests |-> MaxRequestsFail,
              track |-> {"started", "before"}])

NextFail ==
  \/ Next
  \/ \E p \in Procs : WriteOpenFails(p)
  \/ \E p \in Procs : WriteDataFails(p)
  \/ \E p \in Procs : SaveFailed(p)

SpecFail == InitFail /\ [][NextFail]_vars

\* The simple server's handlers
SimpleNext ==
  \/ \E p \in Procs : SimpleGetMemos(p)
  \/ \E p \in Procs, b \in Bodies : SimplePostMemo(p, b)
  \/ \E p \in Procs, x \in PutInputs : SimplePutMemo(p, x[1], x[2])
  \/ \E p \in Procs, i \in IdParams : SimpleDeleteMemo(p, i)
  \/ \E p \in Procs : SimpleGetMemosLoaded(p)
  \/ \E p \in Procs : SimplePostLoaded(p)
  \/ \E p \in Procs : SimplePutLoaded(p)
  \/ \E p \in Procs : SimpleDeleteLoaded(p)
  \/ \E p \in Procs : SimplePostSaved(p)
  \/ \E p \in Procs : SimplePutSaved(p)
  \/ \E p \in Procs : SimpleDeleteSaved(p)

\* Either server, its requests handled one at a time
InitEither ==
  \E srv \in {"improved", "simple"}, ce \in BOOLEAN :
    /\ srv = "simple" => ~ce
    /\ InitWith([server |-> srv, cacheEnabled |-> ce, oneAtATime |-> TRUE,
                 backupEnabled |-> FALSE, failWrites |-> FALSE,
                 inputs |-> "few", maxId |-> MaxId, maxRequests |-> 0,
                 track |-> {"updated"}])

NextEither == Next \/ SimpleNext

\* The simple server, its requests handled one at a time, whatever the data
\* file holds at the start
SimpleTexts == {Garbage, JNull, JObj([memos |-> JArr(<<>>)])}

InitSimple ==
  /\ config = [server |-> "simple", cacheEnabled |-> FALSE, oneAtATime |-> TRUE,
               backupEnabled |-> FALSE, failWrites |-> FALSE,
               inputs |-> "few", maxId |-> MaxId, maxRequests |-> MaxRequestsSimple,
               track |-> {"started"}]
  /\ file \in InitFiles \cup {FileOf(t, 1) : t \in SimpleTexts}
  /\ backupFile = NoFile
  /\ memosCache = Null
  /\ cacheTimestamp = Null
  /\ lastId = 0
  /\ now = 1
  /\ req = [p \in Procs |-> Idle]
  /\ resp = NoResponse
  /\ hist = [started |-> 0, wrote |-> FALSE, hit |-> FALSE, before |-> NoFile,
             delMax |-> FALSE,
             allocated |-> {},
             deleted |-> {}, delCached |-> {}, everUpdated |-> {}, scenario |-> -1]

NextSimple ==
  \/ Tick
  \/ \E p \in Procs : ReadFile(p)
  \/ \E p \in Procs : WriteOpen(p)
  \/ \E p \in Procs : WriteData(p)
  \/ SimpleNext

SpecSimple == InitSimple /\ [][NextSimple]_vars

SpecEither == InitEither /\ [][NextEither]_vars

\* The improved server answering list requests, whatever the data file holds
LoadTexts ==
  { Garbage, JNull, JNum(7), JObj([memos |-> JArr(<<>>)]),
    JArr(<<JNum(7)>>), JArr(<<JNull>>), JArr(<<JObj([foo |-> JNum(1)])>>),
    JArr(<<StringifyMemo(StoredMemo(1, TitleA, ContentX)), JStr(TitleA)>>) }

InitLoad ==
  \E ce \in BOOLEAN :
    /\ config = [server |-> "improved", cacheEnabled |-> ce, oneAtATime |-> FALSE,
                 backupEnabled |-> FALSE, failWrites |-> FALSE,
                 inputs |-> "few", maxId |-> MaxId, maxRequests |-> MaxRequests,
                 track |-> {"started"}]
    /\ file \in InitFiles \cup {FileOf(t, 1) : t \in LoadTexts}
    /\ backupFile = NoFile
    /\ memosCache = Null
    /\ cacheTimestamp = Null
    /\ lastId = 0
    /\ now = 1
    /\ req = [p \in Procs |-> Idle]
    /\ resp = NoResponse
    /\ hist = [started |-> 0, wrote |-> FALSE, hit |-> FALSE, before |-> NoFile,
             delMax |-> FALSE,
               allocated |-> {},
               deleted |-> {}, delCached |-> {}, everUpdated |-> {}, scenario |-> -1]

NextLoad ==
  \/ Tick
  \/ \E p \in Procs : GetMemos(p)
  \/ \E p \in Procs : ReadFile(p)
  \/ \E p \in Procs : GetMemosLoaded(p)

SpecLoad == InitLoad /\ [][NextLoad]_vars

(***************************************************************************)
(* Properties.                                                             *)
(***************************************************************************)
\* The Collection load() would return from the file as it is now
Persisted == loadData(file).memos

DistinctIds(memos) ==
  \A i, j \in 1..Len(memos) : i # j => memos[i].id # memos[j].id

\* C1: whatever requests have run and however they interleaved, the
\* persisted Collection never holds two memos with the same id.
C1_PersistedIdsDistinct == loadData(file).ok => DistinctIds(Persisted)

\* C2: with caching enabled and a write answered with success, a list() that
\* started when no write was in flight, and during which none started,
\* returns the Collection as persisted, whatever list() was in flight while
\* the write saved.
C2_ListReflectsWrite ==
  ( /\ config.cacheEnabled
    /\ hist.wrote
    /\ resp.op = "list" /\ resp.status = 200 /\ resp.settled
    /\ loadData(file).ok )
  => resp.reply = Persisted

\* The field constraints of a Memo
FieldConstraints(m) ==
  /\ StrLen(m.title) >= 1
  /\ StrLen(m.title) <= TitleMaxLength
  /\ NoAngleBrackets(m.title)
  /\ StrLen(m.content) >= 1
  /\ StrLen(m.content) <= ContentMaxLength

\* C3: after any creates and updates, with any request bodies, every
\* persisted memo has a non-empty title of at most 200 characters without
\* '<' and '>', and a non-empty content of at most 5000 characters.
C3_PersistedFieldsValid ==
  loadData(file).ok => \A i \in 1..Len(Persisted) : FieldConstraints(Persisted[i])

\* Slot p's create calls getNextId in this step, and is answered in this step
Allocates(p) ==
  req[p].op = "create" /\ req[p].pc = "loaded" /\ req'[p].pc = "writeOpen"
CreateAnswered(p) ==
  req[p].op = "create" /\ req[p].pc = "written" /\ req'[p].pc = "idle"

\* C4: as long as no delete has removed the memo with the highest id, the id
\* a create obtains is greater than every id obtained by a create before it,
\* and is the id the create returns; so no two creates return the same id.
C4_CreateIdsIncrease ==
  [][\A p \in Procs :
       /\ (Allocates(p) /\ ~hist.delMax) =>
            \A i \in hist.allocated : req'[p].memo[1].id > i
       /\ CreateAnswered(p) =>
            /\ resp'.status = 201
            /\ resp'.reply = req[p].memo
            /\ "ids" \in config.track => resp'.reply[1].id \in hist.allocated]_vars

\* Two creates have obtained ids, the last answered create returning the
\* higher one, and no delete has removed the memo with the highest id.
C4_Witness ==
  /\ ~hist.delMax
  /\ Cardinality(hist.allocated) >= 2
  /\ resp.op = "create" /\ resp.status = 201
  /\ resp.reply[1].id = MaxOf(hist.allocated)

\* Slot p's delete is answered with success in this step
DeleteAnswered(p) ==
  req[p].op = "delete" /\ req[p].pc = "written" /\ req'[p].pc = "idle"

\* The responses of the sequence create, create, delete(2), create, list
\* from an empty Collection
ScenarioResponses ==
  /\ hist.scenario = 1 =>
       /\ resp.reply[1].id = 1
       /\ resp.reply[1].title = trim(resp.body.title)
       /\ resp.reply[1].content = trim(resp.body.content)
       /\ resp.reply[1].createdAt = resp.reply[1].updatedAt
  /\ hist.scenario = 2 => resp.reply[1].id = 2
  /\ hist.scenario = 3 => resp.reply[1].id = 2
  /\ hist.scenario = 4 => resp.reply[1].id = 2
  /\ hist.scenario = 5 => Ids(resp.reply) = {1, 2} /\ Len(resp.reply) = 2

UpdateApplies(p) ==
  req[p].op = "update" /\ req[p].pc = "loaded" /\ req'[p].pc = "writeOpen"
UpdateAnswered(p) ==
  req[p].op = "update" /\ req[p].pc = "written" /\ req'[p].pc = "idle"

NoRequestInFlight == \A p \in Procs : req[p].pc = "idle"

\* C6: in either server, a successful update leaves the memo's id and
\* createdAt as persisted before it and sets an updatedAt that is not earlier
\* than the one persisted before it; the memo so changed is the one persisted
\* and returned.  Between requests, a persisted memo that has not been updated
\* since its creation has updatedAt equal to createdAt.
C6_UpdateKeepsIdentity ==
  /\ [][\A p \in Procs : UpdateApplies(p) =>
          LET before == Persisted[req'[p].index]
              after == req'[p].memo[1]
          IN /\ before.id = parseInt(req[p].params)
             /\ after.id = before.id
             /\ after.createdAt = before.createdAt
             /\ IsoTime(after.updatedAt) >= IsoTime(before.updatedAt)
             /\ after.updatedAt = toISOString(now)]_vars
  /\ [][\A p \in Procs : UpdateAnswered(p) =>
          /\ resp'.status = 200
          /\ resp'.reply = req[p].memo
          /\ Persisted[req[p].index] = req[p].memo[1]
          /\ file' = file]_vars
  /\ [](NoRequestInFlight =>
          \A i \in 1..Len(Persisted) :
            Persisted[i].id \notin hist.everUpdated =>
              Persisted[i].updatedAt = Persisted[i].createdAt)

\* The simple server has answered an update of a memo updated before, at a
\* later instant than the memo's creation, while another memo has never been
\* updated.
C6_Witness ==
  /\ config.server = "simple"
  /\ resp.op = "update" /\ resp.status = 200
  /\ IsoTime(resp.reply[1].updatedAt) > IsoTime(resp.reply[1].createdAt)
  /\ Persisted[1] = resp.reply[1]
  /\ Len(Persisted) = 2
  /\ Persisted[2].id \notin hist.everUpdated

\* C7: requests handled one at a time, a list never returns a memo whose id
\* a delete removed with success, unless a create after that delete returned
\* the id again; whether or not the cache held the memo when it was deleted.
C7_DeleteIsTerminal ==
  (resp.op = "list" /\ resp.status = 200) =>
    Ids(resp.reply) \cap hist.deleted = {}

\* A list is answered after the delete of a memo the cache held, with the
\* cache enabled.
C7_Witness ==
  /\ config.cacheEnabled
  /\ resp.op = "list" /\ resp.status = 200
  /\ hist.delCached # {}

\* Slot p's update or delete has loaded a Collection without the id asked for
NotFoundCase(p) ==
  /\ req[p].pc = "loaded" /\ req[p].op \in {"update", "delete"}
  /\ loadData(req[p].data).ok
  /\ parseInt(req[p].params) \notin Ids(loadData(req[p].data).memos)

\* C8: an update or delete of an id that the loaded Collection does not hold
\* is answered 404, and the file is as the request loaded it and the cache
\* and the high-water mark are as they were.
C8_NotFoundChangesNothing ==
  [][\A p \in Procs : (NotFoundCase(p) /\ req'[p] # req[p]) =>
       /\ resp'.status = 404
       /\ resp'.op = req[p].op /\ resp'.params = req[p].params
       /\ req'[p].pc = "idle"
       /\ file = req[p].data
       /\ UNCHANGED <<file, memosCache, cacheTimestamp, lastId>>]_vars

\* update(999999) has been answered 404 on an empty Collection, the cache
\* holding a snapshot.
C8_Witness ==
  /\ resp.op = "update" /\ resp.status = 404
  /\ parseInt(resp.params) = 999999
  /\ loadData(file).ok /\ Persisted = <<>>
  /\ TruthyCache(memosCache)

\* A request body, and an id parameter, that the contract rejects
InvalidBody(b) ==
  \/ StrLen(b.title) = 0 \/ StrLen(b.title) > 200 \/ ~NoAngleBrackets(b.title)
  \/ StrLen(b.content) = 0 \/ StrLen(b.content) > 5000
InvalidId(s) ==
  s = <<>> \/ \E i \in 1..Len(s) :
                s[i] \notin {"0", "1", "2", "3", "4", "5", "6", "7", "8", "9"}
InvalidRequest(r) ==
  \/ r.op \in {"create", "update"} /\ InvalidBody(r.body)
  \/ r.op \in {"update", "delete"} /\ InvalidId(r.params)

\* C9: no handler ever runs a create or update with an invalid title or
\* content, or an update or delete with an id parameter that is not a
\* non-negative integer literal; such a request is answered 400 in the step
\* that receives it, which leaves the file, the cache, the high-water mark
\* and the requests in flight as they were.
C9_InvalidRejected ==
  /\ [](\A p \in Procs : req[p].pc # "idle" => ~InvalidRequest(req[p]))
  /\ []((resp.status # 0 /\ InvalidRequest(resp)) => resp.status = 400)
  /\ [][(hist'.started # hist.started /\ req' = req /\ InvalidRequest(resp')) =>
          /\ resp'.status = 400
          /\ UNCHANGED <<file, memosCache, cacheTimestamp, lastId>>]_vars

\* An update of the stored memo 1 with the id parameter "1x" and a valid body
\* has been answered 400, the memo as it was.
C9_Witness ==
  /\ resp.op = "update" /\ resp.status = 400
  /\ resp.params = <<"1", "x">>
  /\ ~InvalidBody(resp.body)
  /\ 1 \in Ids(Persisted)
  /\ lastId > 0

\* A JSON value with the shape of a Memo, and a file holding a serialized
\* sequence of them
MemoShaped(j) ==
  /\ j.t = "obj"
  /\ DOMAIN j.f = {"id", "title", "content", "createdAt", "updatedAt"}
  /\ j.f.id.t = "num"
  /\ \A k \in {"title", "content", "createdAt", "updatedAt"} : j.f[k].t = "str"
WellFormedStore(f) ==
  f.text.t = "arr" /\ \A i \in 1..Len(f.text.a) : MemoShaped(f.text.a[i])

\* Slot p's list is answered in this step
ListAnswered(p) ==
  req[p].op = "list" /\ req[p].pc = "loaded" /\ req'[p].pc = "idle"

\* C10: a list that found no data file is answered 200 with the empty
\* Collection; one that found a file whose content is not a serialized
\* sequence of Memo-shaped records (not JSON, not an array, or an array with
\* an element that is not Memo-shaped) is answered 500.
C10_LoadRejectsMalformed ==
  [][\A p \in Procs : ListAnswered(p) =>
       IF ~req[p].data.exists
       THEN resp'.status = 200 /\ resp'.reply = <<>>
       ELSE ~WellFormedStore(req[p].data) => resp'.status = 500]_vars

\* C11: a load that interleaves with a save in progress observes a complete
\* Collection: whatever a request in flight has read from the data file, it
\* loads without error, and it is the file as some save completed it or as
\* it was at the start.
C11_LoadSeesCompleteFile ==
  \A p \in Procs :
    req[p].pc = "loaded" =>
      /\ loadData(req[p].data).ok
      /\ req[p].data.exists => req[p].data.text.t = "arr"

\* A list arrives in this step and is answered from the cache, or enters
\* its handler to read the file
ListHit ==
  hist'.started = hist.started + 1 /\ req' = req /\ resp'.op = "list"
ListMiss ==
  /\ hist'.started = hist.started + 1
  /\ \E p \in Procs : req[p].pc = "idle" /\ req'[p].op = "list"

\* The cache holds a snapshot stamped less than the ttl ago
SnapshotFresh ==
  /\ memosCache # Null /\ cacheTimestamp # Null
  /\ now - cacheTimestamp.v < cacheDuration

\* C12: with caching enabled a list is answered with the snapshot, the file
\* not read, exactly when the cache holds a snapshot stamped less than the
\* ttl ago, a successful save having emptied the cache; any other list reads
\* the file and returns what it loads, with caching enabled storing it with
\* the clock reading the request took.  With caching disabled the cache
\* stays empty.
C12_CacheServesFreshSnapshot ==
  /\ [][/\ ListHit =>
             /\ config.cacheEnabled /\ SnapshotFresh
             /\ resp'.status = 200 /\ resp'.reply = memosCache.v
             /\ UNCHANGED <<file, memosCache, cacheTimestamp>>
        /\ ListMiss => ~(config.cacheEnabled /\ SnapshotFresh)]_vars
  /\ [][\A p \in Procs :
          (ListAnswered(p) /\ loadData(req[p].data).ok) =>
            /\ resp'.status = 200
            /\ resp'.reply = loadData(req[p].data).memos
            /\ IF config.cacheEnabled
               THEN /\ memosCache' = Some(resp'.reply)
                    /\ cacheTimestamp' # Null
                    /\ cacheTimestamp'.v \in req[p].now..now
               ELSE memosCache' = Null /\ cacheTimestamp' = Null]_vars
  /\ [][\A p \in Procs :
          (CreateAnswered(p) \/ UpdateAnswered(p) \/ DeleteAnswered(p)) =>
            memosCache' = Null /\ cacheTimestamp' = Null]_vars
  /\ [](~config.cacheEnabled => memosCache = Null /\ cacheTimestamp = Null)

\* A successful write has emptied the cache, a list has reloaded the file and
\* stored its snapshot, and a list has been answered from the cache.
C12_Witness ==
  /\ hist.hit /\ hist.wrote
  /\ resp.op = "list" /\ resp.status = 200
  /\ memosCache = Some(resp.reply)
  /\ resp.reply = Persisted

\* C13: with the backup enabled, a save goes on to write the file whether or
\* not the copy succeeded; a request whose copy failed leaves its handler
\* only with a success answer, the file then holding the Collection it saved
\* and the cache empty.
C13_BackupFailureDoesNotBlockSave ==
  /\ [][\A p \in Procs :
          (req[p].pc = "copyFile" /\ req'[p] # req[p]) =>
            /\ req'[p].pc = "writeOpen"
            /\ req'[p].memos = req[p].memos
            /\ UNCHANGED <<file, memosCache, cacheTimestamp, lastId, resp>>]_vars
  /\ [][\A p \in Procs :
          (req[p].backup = "failed" /\ req'[p].pc = "idle") =>
            /\ req[p].pc = "written"
            /\ resp'.status \in {200, 201}
            /\ loadData(file).ok /\ Persisted = req[p].memos
            /\ file' = file
            /\ memosCache' = Null /\ cacheTimestamp' = Null]_vars
  /\ [](\A p \in Procs :
          req[p].backup = "failed" => req[p].pc \in {"writeOpen", "writeData", "written"})

\* The first save: there was no data file to copy, the create was answered
\* 201 and the file holds the new memo.
C13_Witness ==
  /\ config.backupEnabled
  /\ resp.op = "create" /\ resp.status = 201
  /\ backupFile = NoFile
  /\ file.exists /\ Persisted = resp.reply
  /\ memosCache = Null

\* Slot p's fs.writeFile completes in this step
WriteCompletes(p) == req[p].pc = "writeData" /\ req'[p].pc = "written"

\* C14: requests handled one at a time, once a save has written the file a
\* load of it succeeds and yields the Collection saved, memo for memo in the
\* same order and field for field; it still does when the request is
\* answered.
C14_SaveLoadRoundTrip ==
  /\ [][\A p \in Procs : WriteCompletes(p) =>
          /\ loadData(file').ok
          /\ loadData(file').memos = req[p].memos
          /\ Len(loadData(file').memos) = Len(req[p].memos)
          /\ \A i \in 1..Len(req[p].memos) :
               LET m == loadData(file').memos[i]
                   c == req[p].memos[i]
               IN /\ DOMAIN m = {"id", "title", "content", "createdAt", "updatedAt"}
                  /\ m.id = c.id /\ m.title = c.title /\ m.content = c.content
                  /\ m.createdAt = c.createdAt /\ m.updatedAt = c.updatedAt]_vars
  /\ [](\A p \in Procs :
          req[p].pc = "written" => loadData(file).ok /\ Persisted = req[p].memos)

\* A create has saved a second memo, with a title of 200 characters and a
\* content of 5000, after the stored one.
C14_Witness ==
  /\ resp.op = "create" /\ resp.status = 201
  /\ Len(Persisted) = 2 /\ Persisted[2] = resp.reply[1]
  /\ StrLen(resp.reply[1].title) = TitleMaxLength
  /\ StrLen(resp.reply[1].content) = ContentMaxLength

\* Slot p's write request is answered after its save in this step
WriteAnswered(p) ==
  req[p].op \in WriteOps /\ req[p].pc = "written" /\ req'[p].pc = "idle"

\* C15: nothing merges or orders the saves of interleaved write requests: a
\* save that leaves a loadable file leaves exactly the saving request's own
\* copy of the Collection, and every write request that has saved is answered
\* with success.  (The lost update itself is the state C15_Witness.)
C15_LastSaveWins ==
  /\ [][\A p \in Procs :
          (WriteCompletes(p) /\ loadData(file').ok) =>
            loadData(file').memos = req[p].memos]_vars
  /\ [][\A p \in Procs :
          WriteAnswered(p) => resp'.status \in {200, 201}]_vars

\* Two requests have run, both creates that obtained an id, both answered;
\* the persisted Collection holds the memo of the one answered last and not
\* the memo of the other.
C15_Witness ==
  /\ hist.started = 2 /\ NoRequestInFlight
  /\ Cardinality(hist.allocated) = 2
  /\ resp.op = "create" /\ resp.status = 201
  /\ loadData(file).ok
  /\ resp.reply[1].id \in Ids(Persisted)
  /\ \E i \in hist.allocated : i \notin Ids(Persisted)

\* Slot p's delete removes the memo from its copy in this step
DeleteApplies(p) ==
  req[p].op = "delete" /\ req[p].pc = "loaded" /\ req'[p].pc = "writeOpen"

\* The sequence s without its i-th element
Without(s, i) ==
  [j \in 1..(Len(s) - 1) |-> IF j < i THEN s[j] ELSE s[j + 1]]

\* C16: requests handled one at a time, the Collection a create saves is the
\* persisted one with the new memo (an id no persisted memo has, createdAt
\* equal to updatedAt) appended; the one an update saves differs from the
\* persisted one only in title, content and updatedAt of the memo with the
\* id asked for; the one a delete saves is the persisted one without that
\* memo; and what is persisted when the request is answered is that
\* Collection.
C16_OperationsTouchOnlyTarget ==
  /\ [][\A p \in Procs : Allocates(p) =>
          LET new == req'[p].memo[1]
          IN /\ req'[p].memos = Append(Persisted, new)
             /\ new.id \notin Ids(Persisted)
             /\ new.createdAt = new.updatedAt]_vars
  /\ [][\A p \in Procs : UpdateApplies(p) =>
          LET i == req'[p].index
              after == req'[p].memos
          IN /\ i \in 1..Len(Persisted)
             /\ Persisted[i].id = parseInt(req[p].params)
             /\ Len(after) = Len(Persisted)
             /\ \A j \in 1..Len(Persisted) : j # i => after[j] = Persisted[j]
             /\ after[i].id = Persisted[i].id
             /\ after[i].createdAt = Persisted[i].createdAt
             /\ after[i].title = trim(req[p].body.title)
             /\ after[i].content = trim(req[p].body.content)]_vars
  /\ [][\A p \in Procs : DeleteApplies(p) =>
          \E i \in 1..Len(Persisted) :
            /\ Persisted[i].id = parseInt(req[p].params)
            /\ req'[p].memo = <<Persisted[i]>>
            /\ req'[p].memos = Without(Persisted, i)]_vars
  /\ [][\A p \in Procs : WriteAnswered(p) =>
          /\ loadData(file).ok /\ Persisted = req[p].memos
          /\ file' = file]_vars

\* The second of two memos has been updated and then the first deleted: the
\* updated memo is what is left.
C16_Witness ==
  /\ resp.op = "delete" /\ resp.status = 200
  /\ resp.reply[1].id = 1
  /\ Len(Persisted) = 1 /\ Persisted[1].id = 2
  /\ IsoTime(Persisted[1].updatedAt) > IsoTime(Persisted[1].createdAt)

\* The text of a file that cannot be read as a Collection
Unreadable(f) == f.exists /\ f.text.t # "arr"

\* Slot p's handler, of the simple server, goes on from its load in this step
SimpleLoaded(p) ==
  config.server = "simple" /\ req[p].pc = "loaded" /\ req'[p] # req[p]

\* C17: in the simple server a request that has read a data file that
\* exists and does not hold a Collection is answered 500 and goes no
\* further, and while the file is like that (and not because a save of the
\* server itself is half way) no step changes it.
C17_SimpleCorruptStoreIsError ==
  /\ [][\A p \in Procs :
          (SimpleLoaded(p) /\ Unreadable(req[p].data)) =>
            /\ req'[p].pc = "idle"
            /\ resp'.status = 500]_vars
  /\ [][(Unreadable(file) /\ \A p \in Procs : req[p].pc # "writeData") =>
          file' = file]_vars

\* C18: with requests handled one at a time, whenever no request is in
\* flight (after start, and after every request answered, its save done or
\* failed) and the data file holds a Collection, lastId is not negative and
\* not below any persisted id, so the id the next create takes, lastId + 1,
\* is held by no persisted memo.
C18_MarkCoversPersistedIds ==
  (NoRequestInFlight /\ loadData(file).ok) =>
    /\ lastId >= 0
    /\ \A id \in Ids(Persisted) : id <= lastId
    /\ lastId + 1 \notin Ids(Persisted)

\* The memo with the highest id has been deleted, lastId has gone down to
\* the highest id that is left
C18_Witness ==
  /\ NoRequestInFlight
  /\ resp.op = "delete" /\ resp.status = 200
  /\ Persisted # <<>>
  /\ lastId = MaxOf(Ids(Persisted))
  /\ resp.reply[1].id = lastId + 1

\* A save has written the file and its clearCache has not run yet
SaveSettling == \E p \in Procs : req[p].pc = "written"

SaveFails(p) == req[p].pc = "writeFailed" /\ req'[p].pc = "idle"

\* A create, update or delete is under way and its save has not succeeded
WriteUnsaved == \E p \in Procs : req[p].op \in WriteOps /\ req[p].pc # "written"

\* What a failed save leaves of the cache and of lastId: the request is
\* answered 500, no step of it has touched the cache, a delete has not
\* lowered lastId and a create has left it at the id it took or above
FailedSaveKeepsMemory ==
  /\ [][\A p \in Procs : SaveFails(p) =>
          /\ resp'.status = 500
          /\ resp'.op = req[p].op
          /\ lastId' = lastId
          /\ req[p].op = "create" => lastId >= req[p].memo[1].id]_vars
  /\ [][WriteUnsaved => UNCHANGED <<memosCache, cacheTimestamp>>]_vars
  /\ [][(\E p \in Procs : req[p].op \in {"update", "delete"} /\ req[p].pc # "written")
          => lastId' = lastId]_vars

\* C20: a create, update or delete whose save fails is answered 500, and
\* the data file then holds the Collection the request found; the cache
\* is as it was, a failed delete has not lowered lastId, and a failed
\* create has consumed its id.
C20_FailedSaveChangesNothing ==
  /\ FailedSaveKeepsMemory
  /\ [][\A p \in Procs : SaveFails(p) =>
          /\ loadData(file').ok
          /\ loadData(file').memos = loadData(hist.before).memos]_vars

====
